---- MODULE Spec2Model ----
(***************************************************************************)
(* Model of the HTTP endpoint checker of checkup (package http):           *)
(* Checker.Check, Checker.doChecks, Checker.checkDown, Checker.conclude    *)
(* and the package-level DefaultHTTPClient.                                *)
(*                                                                         *)
(* Text (Go strings and byte slices) is a sequence of tokens: a body and a *)
(* content rule are sequences of one-character strings, a formatted        *)
(* message is the concatenation of its literal parts and its arguments.    *)
(* Durations are integers (time.Duration is an int64 of nanoseconds).      *)
(***************************************************************************)
EXTENDS Integers, Sequences, FiniteSets, TLC

VARIABLES
    cfg,                \* the Checker value the caller invokes Check on
    c,                  \* the receiver copy of Check (value receiver)
    pc,                 \* position of the invocation
    i,                  \* loop index of doChecks
    checks,             \* the attempts slice of doChecks
    resp,               \* the response of the current loop iteration
    result,             \* the types.Result of Check
    err,                \* the error Check returns
    DefaultHTTPClient,  \* the package-level default client
    wire,               \* what Client.Do answered, in the order requests were issued
    log,                \* the calls made by doChecks, in order
    req,                \* the request Check builds
    peer,               \* the locals of a second, suspended Check invocation
    sent,               \* the telemetry item Exporter.Send tracks
    az                  \* the azblob Storage operation and the blob container

vars == <<cfg, c, pc, i, checks, resp, result, err, DefaultHTTPClient, wire, log,
          req, peer, sent, az>>

\* The state outside the running Check invocation and its request
others == <<peer, sent, az>>

-----------------------------------------------------------------------------
(* Bounds *)

MaxAttempts == 2
MaxRTT == 2
MaxLen == 2
MaxHeaders == 2
MaxBlobs == 3
MaxAge == 2
PageSize == 2

-----------------------------------------------------------------------------
(* Text *)

Alphabet == {"a", "b"}

Strings(n) == UNION {[1..k -> Alphabet] : k \in 0..n}

\* strings.Contains
Contains(s, sub) ==
    \E k \in 0..(Len(s) - Len(sub)) : SubSeq(s, k + 1, k + Len(sub)) = sub

\* http.StatusOK
StatusOK == 200

\* resp.Status, the status line text of a response with the given code
StatusLine(code) ==
    CASE code = 200 -> <<"200 OK">>
      [] code = 404 -> <<"404 Not Found">>
      [] OTHER -> <<ToString(code)>>

\* time.Duration.String as used by %s
\* The w low decimal digits of n, most significant first
RECURSIVE Digits(_, _)
Digits(n, w) ==
    IF w = 0 THEN <<>> ELSE Digits(n \div 10, w - 1) \o <<ToString(n % 10)>>

RECURSIVE StripZeros(_)
StripZeros(ds) ==
    IF ds # <<>> /\ ds[Len(ds)] = "0"
    THEN StripZeros(SubSeq(ds, 1, Len(ds) - 1))
    ELSE ds

\* The fraction n / 10^w without trailing zeros, nothing when it is zero
Fraction(n, w) ==
    IF StripZeros(Digits(n, w)) = <<>> THEN <<>>
    ELSE <<".">> \o StripZeros(Digits(n, w))

\* time.Duration.String of d nanoseconds: "0s" for zero, otherwise the
\* largest unit of ns, µs, ms that leaves a leading digit, and h, m, s from
\* one second on
DurationString(d) ==
    LET u == IF d < 0 THEN 0 - d ELSE d
        sign == IF d < 0 THEN <<"-">> ELSE <<>>
        secs == u \div 1000000000
        h == secs \div 3600
        m == (secs % 3600) \div 60
    IN  IF d = 0 THEN <<"0s">>
        ELSE IF u < 1000 THEN sign \o <<ToString(u), "ns">>
        ELSE IF u < 1000000
        THEN sign \o <<ToString(u \div 1000)>> \o Fraction(u % 1000, 3) \o <<"µs">>
        ELSE IF u < 1000000000
        THEN sign \o <<ToString(u \div 1000000)>> \o Fraction(u % 1000000, 6)
                  \o <<"ms">>
        ELSE sign
             \o (IF h > 0 THEN <<ToString(h), "h">> ELSE <<>>)
             \o (IF h > 0 \/ m > 0 THEN <<ToString(m), "m">> ELSE <<>>)
             \o <<ToString(secs % 60)>> \o Fraction(u % 1000000000, 9) \o <<"s">>

-----------------------------------------------------------------------------
(* Errors *)

NoError == <<>>
errReadingRootCert == <<"error reading root certificate">>
errParsingRootCert == <<"error parsing root certificate">>
errParsingURL == <<"error parsing URL">>

-----------------------------------------------------------------------------
(* The environment: files, URLs, the network *)

\* ioutil.ReadFile on the CA file path: the file's kind is its path here
ReadFile(path) ==
    CASE path = "missing.pem" -> [err |-> TRUE, data |-> <<>>]
      [] path = "empty.pem" -> [err |-> FALSE, data |-> <<>>]
      [] path = "garbage.pem" -> [err |-> FALSE, data |-> <<"garbage">>]
      [] path = "ca.pem" -> [err |-> FALSE, data |-> <<"CERT">>]
      [] OTHER -> [err |-> TRUE, data |-> <<>>]

\* x509.CertPool.AppendCertsFromPEM: the certificates parsed out of the data
ParsedCerts(data) == {data[k] : k \in {n \in 1..Len(data) : data[n] = "CERT"}}

\* net/url.Parse: Host is the URL's host or host:port, Hostname and Port its parts
ParseURL(u) ==
    CASE u = "https://example.com" ->
             [ok |-> TRUE, Scheme |-> "https", Host |-> <<"example.com">>,
              Hostname |-> "example.com", Port |-> ""]
      [] u = "https://example.com:8443" ->
             [ok |-> TRUE, Scheme |-> "https", Host |-> <<"example.com", ":", "8443">>,
              Hostname |-> "example.com", Port |-> "8443"]
      [] u = "https://other.test" ->
             [ok |-> TRUE, Scheme |-> "https", Host |-> <<"other.test">>,
              Hostname |-> "other.test", Port |-> ""]
      [] u = "example.com" ->
             [ok |-> TRUE, Scheme |-> "", Host |-> <<>>, Hostname |-> "", Port |-> ""]
      [] OTHER ->
             [ok |-> FALSE, Scheme |-> "", Host |-> <<>>, Hostname |-> "", Port |-> ""]

NoResp == [StatusCode |-> 0, Status |-> <<>>, Body |-> <<>>, ReadErr |-> <<>>]

Response(code, body, readErr) ==
    [StatusCode |-> code, Status |-> StatusLine(code), Body |-> body,
     ReadErr |-> readErr]

RTTs == 0..MaxRTT

\* A transport-level failure of Client.Do: no response is returned
TransportErrors(rtts) ==
    {[rtt |-> r, err |-> <<"dial tcp: connection refused">>, resp |-> NoResp] :
        r \in rtts}

\* Client.Do refuses a request whose URL has no scheme before dialling
SchemeErrors(rtts) ==
    {[rtt |-> r, err |-> <<"unsupported protocol scheme">>, resp |-> NoResp] :
        r \in rtts}

Answers(rtts, resps) ==
    {[rtt |-> r, err |-> NoError, resp |-> p] : r \in rtts, p \in resps}

\* The responses an endpoint gives during a multi-attempt check
FlowResponses ==
    { Response(200, <<>>, <<>>),
      Response(200, <<"a", "b">>, <<>>),
      Response(404, <<>>, <<>>),
      Response(200, <<"a">>, <<"unexpected EOF">>) }

\* Every response with a body of bounded length
RichResponses ==
    { Response(code, body, re) :
        code \in {200, 404}, body \in Strings(MaxLen),
        re \in {<<>>, <<"unexpected EOF">>} }

-----------------------------------------------------------------------------
(* Configurations *)

NilClient == "nil"
CustomClient == "custom"
DefaultClientRef == "DefaultHTTPClient"

\* The connection function of a transport that has none installed
NoDial == [set |-> FALSE, URL |-> "", InsecureSkipVerify |-> FALSE, RootCAs |-> {}]

\* Client, TLS options and target of a Checker
Setups ==
    { [Client |-> NilClient, TLSSkipVerify |-> FALSE, TLSCAFile |-> "",
       URL |-> "https://example.com"],
      [Client |-> NilClient, TLSSkipVerify |-> TRUE, TLSCAFile |-> "ca.pem",
       URL |-> "https://example.com"],
      [Client |-> CustomClient, TLSSkipVerify |-> FALSE, TLSCAFile |-> "",
       URL |-> "https://example.com"],
      [Client |-> NilClient, TLSSkipVerify |-> FALSE, TLSCAFile |-> "missing.pem",
       URL |-> "https://example.com"],
      [Client |-> NilClient, TLSSkipVerify |-> FALSE, TLSCAFile |-> "empty.pem",
       URL |-> "https://example.com"],
      [Client |-> NilClient, TLSSkipVerify |-> FALSE, TLSCAFile |-> "garbage.pem",
       URL |-> "https://example.com"],
      [Client |-> NilClient, TLSSkipVerify |-> FALSE, TLSCAFile |-> "ca.pem",
       URL |-> "example.com"],
      [Client |-> NilClient, TLSSkipVerify |-> FALSE, TLSCAFile |-> "",
       URL |-> "://example.com"],
      [Client |-> NilClient, TLSSkipVerify |-> FALSE, TLSCAFile |-> "",
       URL |-> "https://example.com:8443"] }

DefaultSetup ==
    [Client |-> NilClient, TLSSkipVerify |-> FALSE, TLSCAFile |-> "",
     URL |-> "https://example.com"]

Checker(s, attempts, up, thr, mc, mnc, spacing) ==
    [URL |-> s.URL, UpStatus |-> up, ThresholdRTT |-> thr,
     MustContain |-> mc, MustNotContain |-> mnc,
     Attempts |-> attempts, AttemptSpacing |-> spacing,
     TLSSkipVerify |-> s.TLSSkipVerify, TLSCAFile |-> s.TLSCAFile,
     Client |-> s.Client, Headers |-> {}]

\* The Checker values of a multi-attempt check
Configs ==
    { Checker(s, n, up, thr, mc, mnc, sp) :
        s \in Setups, n \in (-1)..MaxAttempts, up \in {0, 404},
        thr \in {-1, 0, 1}, mc \in {<<>>, <<"a">>}, mnc \in {<<>>, <<"b">>},
        sp \in {0, 1} }

\* The Checker values of a single classification, with every content rule
ClassifyConfigs ==
    { Checker(DefaultSetup, 0, up, 0, mc, mnc, 0) :
        up \in {0, 200, 404}, mc \in Strings(MaxLen), mnc \in Strings(MaxLen) }

\* One entry of the Headers map: a name and its list of values
HeaderEntries ==
    { [key |-> k, vals |-> v] :
        k \in {"Host", "host", "X-Test"},
        v \in {<<>>, <<"a.test">>, <<"a.test", "b.test">>} }

\* The Headers maps of at most MaxHeaders entries: a map has one entry per
\* name, and names differing in case are different names
HeaderMaps ==
    { hs \in SUBSET HeaderEntries :
        /\ Cardinality(hs) <= MaxHeaders
        /\ \A g, h \in hs : g.key = h.key => g = h }

\* The Checker values that differ in their additional headers
RequestConfigs ==
    { [Checker(DefaultSetup, 1, 0, 0, <<>>, <<>>, 0) EXCEPT !.Headers = hs] :
        hs \in HeaderMaps }

\* The Checker values of invocations that run concurrently: different
\* endpoints with different TLS options, none with a client of its own
ConcurrentSetups ==
    { [Client |-> NilClient, TLSSkipVerify |-> FALSE, TLSCAFile |-> "",
       URL |-> "https://example.com"],
      [Client |-> NilClient, TLSSkipVerify |-> TRUE, TLSCAFile |-> "ca.pem",
       URL |-> "https://other.test"] }

ConcurrentConfigs ==
    { Checker(s, n, 0, 0, <<>>, <<>>, 0) :
        s \in ConcurrentSetups, n \in 1..MaxAttempts }

-----------------------------------------------------------------------------
(* types.Result *)

NewResult ==
    [Endpoint |-> "", Times |-> <<>>, ThresholdRTT |-> 0,
     Stats |-> [Median |-> 0],
     Healthy |-> FALSE, Degraded |-> FALSE, Down |-> FALSE, Notice |-> <<>>]

RECURSIVE Insert(_, _)
Insert(x, s) ==
    IF s = <<>> THEN <<x>>
    ELSE IF x <= Head(s) THEN <<x>> \o s
    ELSE <<Head(s)>> \o Insert(x, Tail(s))

RECURSIVE Sort(_)
Sort(s) == IF s = <<>> THEN <<>> ELSE Insert(Head(s), Sort(Tail(s)))

\* Result.ComputeStats: the median of the attempts' round-trip times
ComputeStats(res) ==
    LET sorted == Sort([k \in 1..Len(res.Times) |-> res.Times[k].RTT])
        n == Len(sorted)
        half == n \div 2
    IN  [Median |-> IF n = 0 THEN 0
                    ELSE IF n % 2 = 0
                         THEN (sorted[half] + sorted[half + 1]) \div 2
                         ELSE sorted[half + 1]]

-----------------------------------------------------------------------------
(* Checker.checkDown *)

\* Mutant: the body is read before the content rules are looked at
checkDownAlwaysRead(cc, r) ==
    IF r.StatusCode # cc.UpStatus
    THEN [err |-> <<"response status ">> \o r.Status, read |-> FALSE]
    ELSE IF r.ReadErr # <<>>
    THEN [err |-> <<"reading response body: ">> \o r.ReadErr, read |-> TRUE]
    ELSE IF cc.MustContain # <<>> /\ ~Contains(r.Body, cc.MustContain)
    THEN [err |-> <<"response does not contain '">> \o cc.MustContain \o <<"'">>,
          read |-> TRUE]
    ELSE IF cc.MustNotContain # <<>> /\ Contains(r.Body, cc.MustNotContain)
    THEN [err |-> <<"response contains '">> \o cc.MustNotContain \o <<"'">>,
          read |-> TRUE]
    ELSE [err |-> NoError, read |-> TRUE]

\* Mutant: the forbidden substring is not looked for
checkDownNoForbidden(cc, r) ==
    IF r.StatusCode # cc.UpStatus
    THEN [err |-> <<"response status ">> \o r.Status, read |-> FALSE]
    ELSE IF cc.MustContain = <<>> /\ cc.MustNotContain = <<>>
    THEN [err |-> NoError, read |-> FALSE]
    ELSE IF r.ReadErr # <<>>
    THEN [err |-> <<"reading response body: ">> \o r.ReadErr, read |-> TRUE]
    ELSE IF cc.MustContain # <<>> /\ ~Contains(r.Body, cc.MustContain)
    THEN [err |-> <<"response does not contain '">> \o cc.MustContain \o <<"'">>,
          read |-> TRUE]
    ELSE [err |-> NoError, read |-> TRUE]

\* err: the error returned; read: whether the body was read
checkDown(cc, r) ==
    IF r.StatusCode # cc.UpStatus
    THEN [err |-> <<"response status ">> \o r.Status, read |-> FALSE]
    ELSE IF cc.MustContain = <<>> /\ cc.MustNotContain = <<>>
    THEN [err |-> NoError, read |-> FALSE]
    ELSE IF r.ReadErr # <<>>
    THEN [err |-> <<"reading response body: ">> \o r.ReadErr, read |-> TRUE]
    ELSE IF cc.MustContain # <<>> /\ ~Contains(r.Body, cc.MustContain)
    THEN [err |-> <<"response does not contain '">> \o cc.MustContain \o <<"'">>,
          read |-> TRUE]
    ELSE IF cc.MustNotContain # <<>> /\ Contains(r.Body, cc.MustNotContain)
    THEN [err |-> <<"response contains '">> \o cc.MustNotContain \o <<"'">>,
          read |-> TRUE]
    ELSE [err |-> NoError, read |-> TRUE]

-----------------------------------------------------------------------------
(* Checker.conclude *)

\* Mutant: latency is evaluated before the attempts' failures
concludeLatencyFirst(cc, res) ==
    LET r1 == [res EXCEPT !.ThresholdRTT = cc.ThresholdRTT]
        r2 == [r1 EXCEPT !.Stats = ComputeStats(r1)]
    IN  IF cc.ThresholdRTT > 0 /\ r2.Stats.Median > cc.ThresholdRTT
        THEN [r2 EXCEPT !.Degraded = TRUE]
        ELSE IF \E k \in 1..Len(r1.Times) : r1.Times[k].Error # <<>>
        THEN [r1 EXCEPT !.Down = TRUE]
        ELSE [r1 EXCEPT !.Healthy = TRUE]

AnyError(times) == \E k \in 1..Len(times) : times[k].Error # <<>>

conclude(cc, res) ==
    LET r1 == [res EXCEPT !.ThresholdRTT = cc.ThresholdRTT]
    IN  IF AnyError(r1.Times)
        THEN [r1 EXCEPT !.Down = TRUE]
        ELSE IF cc.ThresholdRTT > 0
        THEN LET r2 == [r1 EXCEPT !.Stats = ComputeStats(r1)]
             IN  IF r2.Stats.Median > cc.ThresholdRTT
                 THEN [r2 EXCEPT
                         !.Notice = <<"median round trip time exceeded threshold (">>
                                    \o DurationString(cc.ThresholdRTT) \o <<")">>,
                         !.Degraded = TRUE]
                 ELSE [r2 EXCEPT !.Healthy = TRUE]
        ELSE [r1 EXCEPT !.Healthy = TRUE]

-----------------------------------------------------------------------------
(* Checker.Check, up to the call of doChecks *)

\* Mutant: the attempt count is used as configured
defaultAttemptsAsGiven(n) == n

\* Attempts defaulting
defaultAttempts(n) == IF n < 1 THEN 1 ELSE n

\* Mutant: the expected status is used as configured
defaultUpStatusAsGiven(up) == up

\* UpStatus defaulting
defaultUpStatus(up) == IF up = 0 THEN StatusOK ELSE up

\* The error of reading and parsing the CA file, NoError when there is none
rootCertError(cc) ==
    IF cc.Client # NilClient \/ cc.TLSCAFile = "" THEN NoError
    ELSE IF ReadFile(cc.TLSCAFile).err THEN errReadingRootCert
    ELSE IF ParsedCerts(ReadFile(cc.TLSCAFile).data) = {} THEN errParsingRootCert
    ELSE NoError

\* x509.SystemCertPool: the roots of the system trust store
SystemCertPool == {"system root"}

\* Mutant: the pool built from the CA file is not put into the TLS configuration
dialerNoRoots(cc) ==
    [set |-> TRUE, URL |-> cc.URL, InsecureSkipVerify |-> cc.TLSSkipVerify,
     RootCAs |-> {}]

\* The dialer closure Check builds: it captures c.URL and the TLS configuration
dialer(cc) ==
    [set |-> TRUE, URL |-> cc.URL, InsecureSkipVerify |-> cc.TLSSkipVerify,
     RootCAs |-> IF cc.TLSCAFile = "" THEN {}
                 ELSE SystemCertPool \cup ParsedCerts(ReadFile(cc.TLSCAFile).data)]

\* strings.ToLower on a header name
ToLower(key) ==
    CASE key \in {"Host", "HOST", "host"} -> "host"
      [] key \in {"X-Test", "x-test"} -> "x-test"
      [] OTHER -> key

\* textproto.CanonicalMIMEHeaderKey, applied by Header.Add
CanonicalKey(key) ==
    CASE key \in {"Host", "HOST", "host"} -> "Host"
      [] key \in {"X-Test", "x-test"} -> "X-Test"
      [] OTHER -> key

\* strings.Join
RECURSIVE Join(_, _)
Join(vals, sep) ==
    IF vals = <<>> THEN <<>>
    ELSE IF Len(vals) = 1 THEN <<vals[1]>>
    ELSE <<vals[1], sep>> \o Join(Tail(vals), sep)

\* The orders in which a range over the map hs can visit its entries
Orders(hs) ==
    {o \in [1..Cardinality(hs) -> hs] : \A m, n \in 1..Cardinality(hs) : m # n => o[m] # o[n]}

\* The request before any header is added
NoRequest == [URL |-> "", Host |-> <<>>, Header |-> <<>>]

\* http.NewRequest("GET", c.URL, nil)
NewRequest(u) ==
    IF ParseURL(u).ok
    THEN [err |-> NoError, URL |-> u, Host |-> ParseURL(u).Host, Header |-> <<>>]
    ELSE [err |-> <<"parse ">> \o <<u>>, URL |-> "", Host |-> <<>>, Header |-> <<>>]

\* The loop over c.Headers visiting the entries in the given order: the
\* request it leaves, and whether header[0] of an empty value list panicked
RECURSIVE addHeaders(_, _)
addHeaders(r, order) ==
    IF order = <<>> THEN [req |-> r, panic |-> FALSE]
    ELSE LET h == Head(order)
             r1 == [r EXCEPT !.Header =
                       Append(@, [key |-> CanonicalKey(h.key),
                                  value |-> Join(h.vals, ", ")])]
         IN  IF ToLower(h.key) = "host"
             THEN IF h.vals = <<>>
                  THEN [req |-> r1, panic |-> TRUE]
                  ELSE addHeaders([r1 EXCEPT !.Host = <<h.vals[1]>>], Tail(order))
             ELSE addHeaders(r1, Tail(order))

Check ==
    /\ pc = "Check"
    /\ \E order \in Orders(c.Headers) :
       LET r0 == [NewResult EXCEPT !.Endpoint = c.URL]
           c1 == [c EXCEPT !.Attempts = defaultAttempts(c.Attempts)]
           ce == rootCertError(c1)
           c2 == IF c1.Client = NilClient
                 THEN [c1 EXCEPT !.Client = DefaultClientRef]
                 ELSE c1
           c3 == [c2 EXCEPT !.UpStatus = defaultUpStatus(c2.UpStatus)]
           nr == NewRequest(c3.URL)
           built == addHeaders([URL |-> nr.URL, Host |-> nr.Host, Header |-> nr.Header],
                               order)
       IN  IF ce # NoError
           THEN /\ c' = c1
                /\ result' = r0
                /\ err' = ce
                /\ pc' = "done"
                /\ UNCHANGED <<checks, DefaultHTTPClient, req>>
           ELSE /\ c' = c3
                /\ DefaultHTTPClient' =
                      IF c1.Client = NilClient
                      THEN [DefaultHTTPClient EXCEPT !.Transport.DialTLS = dialer(c1)]
                      ELSE DefaultHTTPClient
                /\ result' = r0
                /\ IF nr.err # NoError
                   THEN /\ err' = nr.err
                        /\ pc' = "done"
                        /\ UNCHANGED <<checks, req>>
                   ELSE /\ err' = NoError
                        /\ req' = built.req
                        /\ IF built.panic
                           THEN /\ pc' = "panic"
                                /\ UNCHANGED checks
                           ELSE /\ pc' = "doChecks"
                                /\ checks' = [k \in 1..c3.Attempts |->
                                                 [RTT |-> 0, Error |-> <<>>]]
    /\ i' = 0
    /\ UNCHANGED <<cfg, resp, wire, log, others>>

-----------------------------------------------------------------------------
(* Checker.doChecks *)

Ev(op, k) == [op |-> op, i |-> k]

\* The connection function of the transport c.Client uses
DialInUse(cc) ==
    IF cc.Client = DefaultClientRef THEN DefaultHTTPClient.Transport.DialTLS
    ELSE NoDial

\* net.SplitHostPort accepts an address with exactly one colon
ValidAddress(addr) == Cardinality({n \in 1..Len(addr) : addr[n] = ":"}) = 1

\* The dialer closure d called: the address it hands to tls.DialWithDialer
\* and the error it returns without connecting
Dial(d) ==
    LET u == ParseURL(d.URL)
        port == IF u.Port = "" THEN "443" ELSE u.Port
        addr == u.Host \o <<":", port>>
    IN  IF ~u.ok THEN [err |-> errParsingURL, addr |-> <<>>]
        ELSE IF ~ValidAddress(addr)
        THEN [err |-> <<"dial tcp: address ">> \o addr
                      \o <<": too many colons in address">>,
              addr |-> addr]
        ELSE [err |-> NoError, addr |-> addr]

\* The address the transport of c.Client dials for the request, <<>> when
\* the request is refused first or the transport has no connection function
DialledAddr(cc) ==
    IF ParseURL(cc.URL).Scheme # "" /\ DialInUse(cc).set
    THEN Dial(DialInUse(cc)).addr
    ELSE <<>>

\* What c.Client.Do(req) can answer
ClientDo(cc, rtts, resps) ==
    IF ParseURL(cc.URL).Scheme = ""
    THEN SchemeErrors(rtts)
    ELSE IF DialInUse(cc).set /\ Dial(DialInUse(cc)).err # NoError
    THEN {[rtt |-> r, err |-> Dial(DialInUse(cc)).err, resp |-> NoResp] : r \in rtts}
    ELSE TransportErrors(rtts) \cup Answers(rtts, resps)

\* Mutant: the transport error is not stored in the record
attemptRecordDropErr(cc, o) ==
    IF o.err # NoError
    THEN [RTT |-> o.rtt, Error |-> <<>>]
    ELSE [RTT |-> o.rtt, Error |-> checkDown(cc, o.resp).err]

\* checks[i] after the iteration that got answer o
attemptRecord(cc, o) ==
    IF o.err # NoError
    THEN [RTT |-> o.rtt, Error |-> o.err]
    ELSE [RTT |-> o.rtt, Error |-> checkDown(cc, o.resp).err]

\* Mutant: a failed classification skips the rest of the iteration
attemptCallsLeak(cc, k, o) ==
    IF o.err # NoError
    THEN <<Ev("Do", k)>>
    ELSE IF checkDown(cc, o.resp).err # NoError
    THEN <<Ev("Do", k), Ev("checkDown", k)>>
         \o (IF checkDown(cc, o.resp).read THEN <<Ev("ReadAll", k)>> ELSE <<>>)
    ELSE <<Ev("Do", k), Ev("checkDown", k)>>
         \o (IF checkDown(cc, o.resp).read THEN <<Ev("ReadAll", k)>> ELSE <<>>)
         \o <<Ev("Close", k)>>
         \o (IF cc.AttemptSpacing > 0 THEN <<Ev("Sleep", k)>> ELSE <<>>)

\* The calls of the iteration k that got answer o, in order
attemptCalls(cc, k, o) ==
    IF o.err # NoError
    THEN <<Ev("Do", k)>>
    ELSE <<Ev("Do", k), Ev("checkDown", k)>>
         \o (IF checkDown(cc, o.resp).read THEN <<Ev("ReadAll", k)>> ELSE <<>>)
         \o <<Ev("Close", k)>>
         \o (IF cc.AttemptSpacing > 0 THEN <<Ev("Sleep", k)>> ELSE <<>>)

\* Mutant: a transport error ends the loop
nextIndexBreak(cc, k, o) == IF o.err # NoError THEN cc.Attempts ELSE k + 1

\* The loop index after the iteration k that got answer o: continue and the
\* end of the body both reach the post statement i++
nextIndex(cc, k, o) == k + 1

\* One iteration of the loop of doChecks
doChecksIter(o) ==
    /\ pc = "doChecks"
    /\ i < c.Attempts
    /\ wire' = Append(wire, [rtt |-> o.rtt, err |-> o.err, resp |-> o.resp,
                             dial |-> DialInUse(c), addr |-> DialledAddr(c)])
    /\ checks' = [checks EXCEPT ![i + 1] = attemptRecord(c, o)]
    /\ resp' = o.resp
    /\ log' = log \o attemptCalls(c, i, o)
    /\ i' = nextIndex(c, i, o)
    /\ UNCHANGED <<cfg, c, pc, result, err, DefaultHTTPClient, req, others>>

doChecks == \E o \in ClientDo(c, RTTs, FlowResponses) : doChecksIter(o)

doChecksClassify == \E o \in ClientDo(c, {1}, RichResponses) : doChecksIter(o)

\* doChecks returns; Check stores the attempts and returns conclude's result
Return ==
    /\ pc = "doChecks"
    /\ i >= c.Attempts
    /\ result' = conclude(c, [result EXCEPT !.Times = checks])
    /\ err' = NoError
    /\ pc' = "done"
    /\ UNCHANGED <<cfg, c, i, checks, resp, DefaultHTTPClient, wire, log, req, others>>

\* An iteration of the loop of an invocation that runs beside another one
doChecksConcurrent ==
    \E o \in ClientDo(c, {1}, {Response(200, <<>>, <<>>)}) : doChecksIter(o)

\* The locals of an invocation of Check at the point it has reached
Invocation(cf, cc, p, k, ch, rs, res, e, rq, w, l) ==
    [cfg |-> cf, c |-> cc, pc |-> p, i |-> k, checks |-> ch, resp |-> rs,
     result |-> res, err |-> e, req |-> rq, wire |-> w, log |-> l]

\* An invocation of Check that has not started
NotStarted(cf) ==
    Invocation(cf, cf, "Check", 0, <<>>, NoResp, NewResult, NoError, NoRequest,
               <<>>, <<>>)

\* The scheduler suspends the running invocation between two of its steps and
\* resumes the other one; the package-level DefaultHTTPClient is the same
\* object for both
Switch ==
    /\ peer.pc # "none"
    /\ peer' = Invocation(cfg, c, pc, i, checks, resp, result, err, req, wire, log)
    /\ cfg' = peer.cfg
    /\ c' = peer.c
    /\ pc' = peer.pc
    /\ i' = peer.i
    /\ checks' = peer.checks
    /\ resp' = peer.resp
    /\ result' = peer.result
    /\ err' = peer.err
    /\ req' = peer.req
    /\ wire' = peer.wire
    /\ log' = peer.log
    /\ UNCHANGED <<DefaultHTTPClient, sent, az>>

-----------------------------------------------------------------------------
(* Exporter.Send of the Application Insights exporter *)

\* strings.Join over texts
RECURSIVE JoinTexts(_, _)
JoinTexts(texts, sep) ==
    IF texts = <<>> THEN <<>>
    ELSE IF Len(texts) = 1 THEN texts[1]
    ELSE texts[1] \o <<sep>> \o JoinTexts(Tail(texts), sep)

\* Mutant: the message is the notice alone
MessageNoticeOnly(res) == res.Notice

\* The message of the availability telemetry for the result res
Message(res) ==
    LET attempts == Len(res.Times)
        rtts == [k \in 1..attempts |-> DurationString(res.Times[k].RTT)]
    IN  IF res.Degraded \/ res.Down
        THEN res.Notice \o <<" - Number of attempts = ", ToString(attempts), " (">>
             \o JoinTexts(rtts, " ") \o <<")">>
        ELSE res.Notice

\* The result Check returned is handed to the exporter, which tracks one
\* availability telemetry item for it
Send ==
    /\ pc = "done"
    /\ err = NoError
    /\ ~sent.tracked
    /\ sent' = [tracked |-> TRUE, Success |-> result.Healthy,
                Message |-> Message(result)]
    /\ UNCHANGED <<cfg, c, pc, i, checks, resp, result, err, DefaultHTTPClient,
                   wire, log, req, peer, az>>

-----------------------------------------------------------------------------
(* Storage of package azblob: Store and Maintain *)

\* The cached SAS URL of a Storage: none, one that is valid for more than
\* the next 15 minutes, one that expires within them, or one that has expired
SASURLs == {"absent", "valid", "expiring", "expired"}

\* Account name and key: both set, one of them empty, or a key that is
\* not base64
Accounts == {"configured", "empty", "malformed"}

\* The container named in the path of a cached SAS URL: the configured one
\* or another one; none when no SAS URL is cached
SASContainers(u) == IF u = "absent" THEN {""} ELSE {"checks", "other"}

\* SASURL is the state of the cached SAS URL and SASContainer the container
\* its path names
Storages ==
    UNION { { [SASURL |-> u, SASContainer |-> sc, Account |-> a,
               ContainerName |-> "checks", CheckExpiry |-> e] :
                 sc \in SASContainers(u), a \in Accounts, e \in (-1)..MaxAge } :
            u \in SASURLs }

\* The blobs of a container in listing order, each with the time since its
\* last modification
Containers ==
    UNION { [1..n -> [name : {"blob"}, age : 0..MaxAge]] : n \in 0..MaxBlobs }

\* A container's blobs are told apart by their position in the listing
BlobNames(blobs) == 1..Len(blobs)

\* The results handed to Store: a nil slice, or a list of results by title
NilResults == <<"nil">>
ResultLists == {NilResults, <<>>, <<"Testing">>, <<"Testing", "Other">>}

\* json.Marshal of the results
JSON(results) ==
    IF results = NilResults THEN <<"null">>
    ELSE <<"[">>
         \o JoinTexts([k \in 1..Len(results) |->
                          <<"{\"title\":\"", results[k], "\"}">>], ",")
         \o <<"]">>

\* The name fs.GenerateFilename gives the new check file
GenerateFilename == "<timestamp>-check.json"

\* false without SAS URL and for one that expires before 15 minutes from now
checkSASURL(s) == s.SASURL \in {"valid", "unsigned"}

\* A SAS URL for s.ContainerName valid for 48 hours, signed with the account
\* key; with an empty name or key it is built all the same, and no service
\* accepts it
getSASURL(s) ==
    IF s.Account = "malformed"
    THEN [err |-> <<"illegal base64 data">>, u |-> "absent", container |-> ""]
    ELSE IF s.Account = "empty"
    THEN [err |-> NoError, u |-> "unsigned", container |-> s.ContainerName]
    ELSE [err |-> NoError, u |-> "valid", container |-> s.ContainerName]

\* Whether the blob service can carry out a request made with the SAS URL u:
\* it is signed with the account key and has not expired; a request it can
\* carry out may still fail
Authorized(u) == u \in {"valid", "expiring"}

\* Store as far as the upload: the storage value it uploads with, and whether
\* log.Fatal ended the process before
storeSAS(s) ==
    LET got == getSASURL(s)
        s1 == IF s.SASURL = "absent" /\ got.err = NoError
              THEN [s EXCEPT !.SASURL = got.u, !.SASContainer = got.container]
              ELSE s
    IN  IF s.SASURL = "absent" /\ got.err # NoError THEN [s |-> s, fatal |-> TRUE]
        ELSE IF ~checkSASURL(s1) THEN [s |-> s1, fatal |-> TRUE]
        ELSE [s |-> s1, fatal |-> FALSE]

\* Storage.Store: the blob is addressed through the SAS URL, which names the
\* container
Store ==
    /\ az.pc = "Store"
    /\ LET st == storeSAS(az.s)
       IN  IF st.fatal
           THEN az' = [az EXCEPT !.pc = "fatal"]
           ELSE \E ok \in BOOLEAN :
                   IF ok /\ Authorized(st.s.SASURL)
                   THEN az' = [az EXCEPT
                                 !.pc = "returned",
                                 !.uploads = Append(@,
                                     [container |-> st.s.SASContainer,
                                      name |-> GenerateFilename,
                                      body |-> JSON(az.results),
                                      ContentType |-> "application/json"])]
                   ELSE az' = [az EXCEPT !.pc = "fatal", !.uploadFailed = TRUE]
    /\ UNCHANGED <<cfg, c, pc, i, checks, resp, result, err, DefaultHTTPClient,
                   wire, log, req, peer, sent>>

\* azblob.Marker{}: no listing made yet
NoMarker == [set |-> FALSE, next |-> 0]

\* Marker.NotDone: no listing made yet, or the last one named a next page
NotDone(marker) == ~marker.set \/ marker.next # 0

\* The number of pages a listing of the blobs takes
NumPages(blobs) ==
    IF Len(blobs) = 0 THEN 1 ELSE (Len(blobs) + PageSize - 1) \div PageSize

\* The names of the blobs of page k
Page(blobs, k) ==
    [n \in 1..(IF k * PageSize <= Len(blobs) THEN PageSize
               ELSE Len(blobs) - (k - 1) * PageSize) |-> (k - 1) * PageSize + n]

\* time.Since(b.Properties.LastModified) > s.CheckExpiry
Expired(blobs, n, s) == blobs[n].age > s.CheckExpiry

\* The blobs of the page that are older than s.CheckExpiry, in page order
RECURSIVE Marked(_, _, _)
Marked(blobs, page, s) ==
    IF page = <<>> THEN <<>>
    ELSE (IF Expired(blobs, Head(page), s) THEN <<Head(page)>> ELSE <<>>)
         \o Marked(blobs, Tail(page), s)

\* Storage.Maintain up to the listing loop
Maintain ==
    /\ az.pc = "Maintain"
    /\ az' = IF az.s.CheckExpiry = 0
             THEN [az EXCEPT !.pc = "returned"]
             ELSE IF az.s.Account # "configured"
             THEN [az EXCEPT !.pc = "fatal"]
             ELSE [az EXCEPT !.pc = "Maintaining", !.marker = NoMarker,
                             !.blobsToDelete = <<>>]
    /\ UNCHANGED <<cfg, c, pc, i, checks, resp, result, err, DefaultHTTPClient,
                   wire, log, req, peer, sent>>

\* One iteration of the listing loop of Maintain
ListBlobsFlatSegment ==
    /\ az.pc = "Maintaining"
    /\ NotDone(az.marker)
    /\ \E ok \in BOOLEAN :
          LET k == IF az.marker.set THEN az.marker.next ELSE 1
          IN  IF ~ok
              THEN az' = [az EXCEPT !.pc = "fatal", !.serviceFailed = TRUE]
              ELSE az' = [az EXCEPT
                            !.marker = [set |-> TRUE,
                                        next |-> IF k < NumPages(az.blobs)
                                                 THEN k + 1 ELSE 0],
                            !.listed = Append(@, k),
                            !.blobsToDelete =
                                @ \o Marked(az.blobs, Page(az.blobs, k), az.s)]
    /\ UNCHANGED <<cfg, c, pc, i, checks, resp, result, err, DefaultHTTPClient,
                   wire, log, req, peer, sent>>

\* One iteration of the deletion loop of Maintain: the blob is addressed by
\* its name under the SAS URL; when that URL names another container than the
\* one listed, the blob of that name there is deleted if there is one, and the
\* service answers that there is none otherwise
Delete ==
    /\ az.pc = "Maintaining"
    /\ ~NotDone(az.marker)
    /\ az.d < Len(az.blobsToDelete)
    /\ IF az.s.SASURL = "absent"
       THEN az' = [az EXCEPT !.pc = "panic"]
       ELSE \E ok \in BOOLEAN, found \in BOOLEAN :
               IF ~(ok /\ Authorized(az.s.SASURL))
               THEN az' = [az EXCEPT !.pc = "fatal", !.serviceFailed = ~ok]
               ELSE IF az.s.SASContainer = az.s.ContainerName
               THEN az' = [az EXCEPT
                             !.deleted = @ \cup {az.blobsToDelete[az.d + 1]},
                             !.d = @ + 1]
               ELSE IF found
               THEN az' = [az EXCEPT
                             !.deletedElsewhere = @ \cup {az.blobsToDelete[az.d + 1]},
                             !.d = @ + 1]
               ELSE az' = [az EXCEPT !.pc = "fatal"]
    /\ UNCHANGED <<cfg, c, pc, i, checks, resp, result, err, DefaultHTTPClient,
                   wire, log, req, peer, sent>>

\* Maintain returns nil after the last deletion
MaintainReturn ==
    /\ az.pc = "Maintaining"
    /\ ~NotDone(az.marker)
    /\ az.d >= Len(az.blobsToDelete)
    /\ az' = [az EXCEPT !.pc = "returned"]
    /\ UNCHANGED <<cfg, c, pc, i, checks, resp, result, err, DefaultHTTPClient,
                   wire, log, req, peer, sent>>

\* A storage operation about to be called
Operation(op, s, blobs, results) ==
    [op |-> op, pc |-> op, s |-> s, blobs |-> blobs, results |-> results,
     marker |-> NoMarker, listed |-> <<>>, blobsToDelete |-> <<>>, d |-> 0,
     deleted |-> {}, uploads |-> <<>>, uploadFailed |-> FALSE,
     serviceFailed |-> FALSE, deletedElsewhere |-> {}]

-----------------------------------------------------------------------------
(* Specifications *)

\* No second invocation
NoPeer == [pc |-> "none"]

\* Nothing tracked by the exporter
NoTelemetry == [tracked |-> FALSE]

\* No storage operation
NoStorage == [pc |-> "none"]

InitWith(configs) ==
    /\ cfg \in configs
    /\ c = cfg
    /\ pc = "Check"
    /\ i = 0
    /\ checks = <<>>
    /\ resp = NoResp
    /\ result = NewResult
    /\ err = NoError
    /\ DefaultHTTPClient = [Transport |-> [DialTLS |-> NoDial]]
    /\ wire = <<>>
    /\ log = <<>>
    /\ req = NoRequest
    /\ peer = NoPeer
    /\ sent = NoTelemetry
    /\ az = NoStorage

Init == InitWith(Configs)

Next == Check \/ doChecks \/ Return \/ Send

\* One Check invocation of any multi-attempt configuration
Spec == Init /\ [][Next]_vars

InitClassify == InitWith(ClassifyConfigs)

NextClassify == Check \/ doChecksClassify \/ Return

\* One single-attempt Check invocation over every content rule and body
SpecClassify == InitClassify /\ [][NextClassify]_vars

\* Two invocations for different endpoints, none started
InitConcurrent ==
    /\ cfg \in ConcurrentConfigs
    /\ c = cfg
    /\ pc = "Check"
    /\ i = 0
    /\ checks = <<>>
    /\ resp = NoResp
    /\ result = NewResult
    /\ err = NoError
    /\ DefaultHTTPClient = [Transport |-> [DialTLS |-> NoDial]]
    /\ wire = <<>>
    /\ log = <<>>
    /\ req = NoRequest
    /\ peer \in {NotStarted(cf) : cf \in {x \in ConcurrentConfigs : x.URL # cfg.URL}}
    /\ sent = NoTelemetry
    /\ az = NoStorage

NextConcurrent == Check \/ doChecksConcurrent \/ Return \/ Switch

\* Two Check invocations in any interleaving of their steps
SpecConcurrent == InitConcurrent /\ [][NextConcurrent]_vars

InitRequest == InitWith(RequestConfigs)

\* One call of Store or of Maintain on a Storage value; no check is running
InitStorage ==
    /\ cfg = Checker(DefaultSetup, 1, 0, 0, <<>>, <<>>, 0)
    /\ c = cfg
    /\ pc = "idle"
    /\ i = 0
    /\ checks = <<>>
    /\ resp = NoResp
    /\ result = NewResult
    /\ err = NoError
    /\ DefaultHTTPClient = [Transport |-> [DialTLS |-> NoDial]]
    /\ wire = <<>>
    /\ log = <<>>
    /\ req = NoRequest
    /\ peer = NoPeer
    /\ sent = NoTelemetry
    /\ az \in { Operation("Maintain", s, blobs, <<>>) :
                   s \in Storages, blobs \in Containers }
             \cup
             { Operation("Store", s, <<>>, results) :
                   s \in {x \in Storages : x.CheckExpiry = 0},
                   results \in ResultLists }

NextStorage == Store \/ Maintain \/ ListBlobsFlatSegment \/ Delete \/ MaintainReturn

SpecStorage == InitStorage /\ [][NextStorage]_vars

\* One Check invocation of any configuration of additional headers
SpecRequest == InitRequest /\ [][NextClassify]_vars

-----------------------------------------------------------------------------
(* Properties *)

\* Check has returned a verdict and a nil error
Returned == pc = "done" /\ err = NoError

\* The attempt count the configuration asks for
AttemptCount == IF cfg.Attempts < 1 THEN 1 ELSE cfg.Attempts

\* Some attempt record of the verdict has a non-empty failure description
SomeAttemptFailed == \E k \in 1..Len(result.Times) : result.Times[k].Error # <<>>

\* C1: a Check that returns without error yields a verdict with exactly N
\* attempt records, N the configured attempt count, or 1 when that count is
\* unset or below 1, whatever the attempts' outcomes were.
C1_ExactlyNRecords == Returned => Len(result.Times) = AttemptCount

\* Two attempts, the first a transport error and the second a success
C1_Witness ==
    /\ Returned
    /\ cfg.Attempts = 2
    /\ Len(result.Times) = 2
    /\ wire[1].err # NoError
    /\ wire[2].err = NoError
    /\ result.Times[2].Error = <<>>

\* C2: the verdict is down exactly when some attempt record has a non-empty
\* failure description, and then it is neither degraded nor healthy, whatever
\* the latencies and the threshold.
C2_DownIffFailed ==
    Returned =>
        /\ result.Down <=> SomeAttemptFailed
        /\ SomeAttemptFailed => ~result.Degraded /\ ~result.Healthy

\* A failed attempt in a check whose median latency exceeds its threshold
C2_Witness ==
    /\ Returned
    /\ SomeAttemptFailed
    /\ cfg.ThresholdRTT > 0
    /\ ComputeStats(result).Median > cfg.ThresholdRTT
    /\ result.Down

\* The median round-trip time of the verdict's attempt records
MedianRTT == ComputeStats(result).Median

\* The degraded condition: no failed attempt, a threshold configured, median above it
DegradedCondition ==
    ~SomeAttemptFailed /\ cfg.ThresholdRTT # 0 /\ MedianRTT > cfg.ThresholdRTT

\* C3: the verdict is degraded exactly when no attempt failed, a latency
\* threshold is configured (non-zero) and the median round-trip time is
\* strictly greater than it; with no failed attempt and a median at or below
\* the threshold the verdict is healthy.
C3_DegradedIffOverThreshold ==
    Returned =>
        /\ result.Degraded <=> DegradedCondition
        /\ (~SomeAttemptFailed /\ MedianRTT <= cfg.ThresholdRTT) => result.Healthy

\* C4: every verdict returned without error has exactly one of healthy,
\* degraded and down set; healthy is set exactly when neither the down nor the
\* degraded condition holds, in particular for every latency when no attempt
\* failed and no threshold is configured.
C4_ExactlyOneFlag ==
    Returned =>
        /\ Cardinality({f \in {"Healthy", "Degraded", "Down"} : result[f]}) = 1
        /\ result.Healthy <=> (~SomeAttemptFailed /\ ~DegradedCondition)
        /\ (~SomeAttemptFailed /\ cfg.ThresholdRTT = 0) => result.Healthy

\* The positions of the log that hold the call op of attempt k
Calls(op, k) == {n \in 1..Len(log) : log[n] = Ev(op, k)}

\* The positions of the log that hold a call op of any attempt
CallsOf(op) == {n \in 1..Len(log) : log[n].op = op}

\* C5: the requests of an invocation are issued one after another, request k
\* being the k-th issued; a transport error of an attempt is that attempt's
\* failure description and the later attempts still run; no call of attempt
\* k+1 precedes a call of attempt k; record k holds the k-th request's round
\* trip time; a Check that returns without error has issued exactly N requests.
C5_SequentialAttempts ==
    /\ Len(wire) = Cardinality(CallsOf("Do"))
    /\ \A k \in 1..Len(wire) :
          /\ Cardinality(Calls("Do", k - 1)) = 1
          /\ checks[k].RTT = wire[k].rtt
          /\ wire[k].err # NoError => checks[k].Error = wire[k].err
    /\ \A m, n \in 1..Len(log) : m < n => log[m].i <= log[n].i
    /\ Returned =>
          /\ Len(wire) = AttemptCount
          /\ \A k \in 1..Len(wire) :
                /\ result.Times[k].RTT = wire[k].rtt
                /\ wire[k].err # NoError => result.Times[k].Error = wire[k].err

\* Two attempts with different round-trip times, the first a transport error
C5_Witness ==
    /\ Returned
    /\ Len(wire) = 2
    /\ wire[1].err # NoError
    /\ wire[1].rtt > wire[2].rtt
    /\ wire[2].err = NoError
    /\ result.Times[1].Error = wire[1].err

\* The configuration cannot be probed: the CA file of a check without its own
\* client is unreadable or holds no certificate, or the target URL does not parse
ConfigurationError ==
    \/ /\ cfg.Client = NilClient
       /\ cfg.TLSCAFile # ""
       /\ \/ ReadFile(cfg.TLSCAFile).err
          \/ ParsedCerts(ReadFile(cfg.TLSCAFile).data) = {}
    \/ ~ParseURL(cfg.URL).ok

\* The status code the configuration expects
ExpectedStatus == IF cfg.UpStatus = 0 THEN 200 ELSE cfg.UpStatus

\* The answer is a response with a status or content mismatch
Mismatch(w) ==
    /\ w.err = NoError
    /\ \/ w.resp.StatusCode # ExpectedStatus
       \/ /\ w.resp.ReadErr = <<>>
          /\ \/ cfg.MustContain # <<>> /\ ~Contains(w.resp.Body, cfg.MustContain)
             \/ cfg.MustNotContain # <<>> /\ Contains(w.resp.Body, cfg.MustNotContain)

\* C6: Check returns an error only for a configuration error; once a request
\* has been issued Check returns a nil error, and every transport failure,
\* status mismatch and content mismatch is a failure description of the verdict.
C6_OnlyConfigErrors ==
    pc = "done" =>
        /\ err # NoError => ConfigurationError
        /\ Len(wire) > 0 =>
              /\ err = NoError
              /\ \A k \in 1..Len(wire) :
                    (wire[k].err # NoError \/ Mismatch(wire[k]))
                        => result.Times[k].Error # <<>>

\* A transport failure followed by a status mismatch, returned with a nil error
C6_Witness ==
    /\ Returned
    /\ Len(wire) = 2
    /\ wire[1].err # NoError
    /\ wire[2].err = NoError
    /\ wire[2].resp.StatusCode # ExpectedStatus
    /\ result.Down

\* C7: with a delay d > 0 and N attempts the invocation sleeps between every
\* two consecutive attempts, also after a transport failure, and not after
\* the final attempt: the sleeps are those after attempts 1..N-1.
C7_DelaysBetweenAttempts ==
    (Returned /\ cfg.AttemptSpacing > 0) =>
        /\ Cardinality(CallsOf("Sleep")) = AttemptCount - 1
        /\ \A k \in 0..(AttemptCount - 2) : Cardinality(Calls("Sleep", k)) = 1

\* C8: every response an attempt obtains is closed exactly once, after its
\* classification (and the reading of its body) and before the next request
\* is issued; an attempt without a response closes nothing; so no response is
\* open between attempts or when Check returns.
C8_ResponsesClosed ==
    \A k \in 1..Len(wire) :
        IF wire[k].err = NoError
        THEN /\ Cardinality(Calls("Close", k - 1)) = 1
             /\ Cardinality(Calls("checkDown", k - 1)) = 1
             /\ \A n \in Calls("Close", k - 1) :
                   /\ \A m \in Calls("Do", k - 1) \cup Calls("checkDown", k - 1)
                              \cup Calls("ReadAll", k - 1) : m < n
                   /\ \A m \in CallsOf("Do") : log[m].i > k - 1 => n < m
        ELSE Calls("Close", k - 1) = {} /\ Calls("checkDown", k - 1) = {}

\* A response whose body could not be read has been closed and the check returned
C8_Witness ==
    /\ Returned
    /\ Len(wire) = 2
    /\ wire[1].err = NoError
    /\ Calls("ReadAll", 0) # {}
    /\ wire[1].resp.ReadErr # <<>>
    /\ result.Times[1].Error = <<"reading response body: ">> \o wire[1].resp.ReadErr
    /\ Calls("Close", 0) # {}
    /\ wire[2].err = NoError
    /\ wire[2].resp.StatusCode # ExpectedStatus
    /\ Calls("Close", 1) # {}


\* C9: the classifier fails an attempt whenever the response status code
\* differs from the expected code (200 when unset), with a description that
\* contains the response's status, and with no content rule it passes the
\* attempt whenever the status code is the expected one.
C9_StatusCheck ==
    \A k \in 1..Len(wire) :
        wire[k].err = NoError =>
            /\ wire[k].resp.StatusCode # ExpectedStatus =>
                  /\ checks[k].Error # <<>>
                  /\ Contains(checks[k].Error, wire[k].resp.Status)
            /\ ( /\ wire[k].resp.StatusCode = ExpectedStatus
                 /\ cfg.MustContain = <<>>
                 /\ cfg.MustNotContain = <<>> ) => checks[k].Error = <<>>

\* A 404 answer to a check with no expected status and a content rule it meets
C9_Witness ==
    /\ Returned
    /\ cfg.UpStatus = 0
    /\ cfg.MustContain = <<"a">>
    /\ wire[1].err = NoError
    /\ wire[1].resp.StatusCode = 404
    /\ wire[1].resp.Body = <<"b", "a">>
    /\ result.Times[1].Error = <<"response status ", "404 Not Found">>

\* The body holds the required substring, or none is required
RequiredOK(body) == cfg.MustContain = <<>> \/ Contains(body, cfg.MustContain)

\* The body does not hold the forbidden substring, or none is forbidden
ForbiddenOK(body) == cfg.MustNotContain = <<>> \/ ~Contains(body, cfg.MustNotContain)

\* The description e starts with the literal lit and names the substring sub
Names(e, lit, sub) == e # <<>> /\ Head(e) = lit /\ Contains(Tail(e), sub)

\* The content rules decide the attempt k
ContentDecides(k) ==
    LET body == wire[k].resp.Body
        e == checks[k].Error
    IN  /\ e = <<>> <=> (RequiredOK(body) /\ ForbiddenOK(body))
        /\ ~RequiredOK(body) =>
              Names(e, "response does not contain '", cfg.MustContain)
        /\ (RequiredOK(body) /\ ~ForbiddenOK(body)) =>
              Names(e, "response contains '", cfg.MustNotContain)

\* C10 as stated: for a response whose status matches, the classifier passes
\* exactly when the required substring (if set) is in the body and the
\* forbidden substring (if set) is not; a missing required substring and a
\* present forbidden substring are named in the description.
C10_ContentRules ==
    \A k \in 1..Len(wire) :
        (wire[k].err = NoError /\ wire[k].resp.StatusCode = ExpectedStatus)
            => ContentDecides(k)

\* C10 amended: for a response whose status matches and whose body is read
\* without error the content rules decide as stated; when reading the body
\* fails, the attempt passes exactly when no content rule is configured and
\* the description of the failure is that of the read error.
C10_ContentRulesOfReadBody ==
    \A k \in 1..Len(wire) :
        (wire[k].err = NoError /\ wire[k].resp.StatusCode = ExpectedStatus) =>
            IF wire[k].resp.ReadErr = <<>>
            THEN ContentDecides(k)
            ELSE /\ checks[k].Error = <<>> <=>
                       (cfg.MustContain = <<>> /\ cfg.MustNotContain = <<>>)
                 /\ checks[k].Error # <<>> =>
                       Names(checks[k].Error, "reading response body: ",
                             wire[k].resp.ReadErr)

\* Both rules set, the required substring present and the forbidden one too
C10_Witness ==
    /\ Returned
    /\ cfg.MustContain = <<"a">>
    /\ cfg.MustNotContain = <<"b", "a">>
    /\ wire[1].err = NoError
    /\ wire[1].resp.StatusCode = ExpectedStatus
    /\ wire[1].resp.ReadErr = <<>>
    /\ wire[1].resp.Body = <<"b", "a">>
    /\ result.Times[1].Error = <<"response contains '", "b", "a", "'">>
    /\ result.Down


\* C11: the response body is read only when a required or a forbidden
\* substring is configured; with neither configured no classification reads it.
C11_BodyReadOnlyWithRule ==
    CallsOf("ReadAll") # {} =>
        (cfg.MustContain # <<>> \/ cfg.MustNotContain # <<>>)

\* A matching response with a body, classified without a rule and without a read
C11_Witness ==
    /\ Returned
    /\ cfg.MustContain = <<>>
    /\ cfg.MustNotContain = <<>>
    /\ wire[1].err = NoError
    /\ wire[1].resp.StatusCode = ExpectedStatus
    /\ wire[1].resp.Body = <<"a", "b">>
    /\ Calls("checkDown", 0) # {}
    /\ CallsOf("ReadAll") = {}
    /\ result.Healthy


\* The target URL does not parse or has no scheme
MalformedURL == ~ParseURL(cfg.URL).ok \/ ParseURL(cfg.URL).Scheme = ""

\* Check has ended with an error, before any request and without attempt record
AbortedBeforeProbing ==
    /\ pc = "done"
    /\ err # NoError
    /\ wire = <<>>
    /\ result.Times = <<>>

\* C12: with a malformed target URL (one that does not parse, or one without
\* scheme) Check aborts with a configuration error before any request, and no
\* attempt record is produced.
C12_MalformedURLAborts == (MalformedURL /\ pc # "Check") => AbortedBeforeProbing

\* A check without its own client that names a CA file
CAFileInUse == cfg.Client = NilClient /\ cfg.TLSCAFile # ""

\* The certificates of the configured CA file
CAFileCerts == ParsedCerts(ReadFile(cfg.TLSCAFile).data)

\* The CA file is unreadable, empty or without a certificate that parses
BadCAFile ==
    \/ ReadFile(cfg.TLSCAFile).err
    \/ ReadFile(cfg.TLSCAFile).data = <<>>
    \/ CAFileCerts = {}

\* C13: with no client supplied and a CA file configured, Check returns a
\* configuration error, issues no request and produces no record when the
\* file is unreadable, empty or holds no certificate that parses; otherwise
\* the trust pool of the connection function of every probe holds the
\* certificates of the file.
C13_CAFile ==
    (CAFileInUse /\ pc # "Check") =>
        IF BadCAFile
        THEN AbortedBeforeProbing
        ELSE /\ CAFileCerts \subseteq DefaultHTTPClient.Transport.DialTLS.RootCAs
             /\ \A k \in 1..Len(wire) :
                   wire[k].dial.set /\ CAFileCerts \subseteq wire[k].dial.RootCAs

\* A probe answered through a connection function that trusts the file's certificate
C13_Witness ==
    /\ Returned
    /\ CAFileInUse
    /\ cfg.TLSCAFile = "ca.pem"
    /\ Len(wire) >= 1
    /\ wire[1].err = NoError
    /\ "CERT" \in wire[1].dial.RootCAs
    /\ wire[1].addr = <<"example.com", ":", "443">>


\* host:port of the target URL, the port being 443 when the URL names none
HostPort(u) ==
    <<ParseURL(u).Hostname, ":",
      IF ParseURL(u).Port = "" THEN "443" ELSE ParseURL(u).Port>>

\* C18: the connection function installed by Check dials host:port, host
\* being the host name of the target URL and port its explicit port, or 443
\* when the URL has none.
C18_DialsHostPort ==
    \A k \in 1..Len(wire) :
        (wire[k].dial.set /\ wire[k].addr # <<>>) =>
            wire[k].addr = HostPort(wire[k].dial.URL)

\* The default client as constructed at process start
InitialDefaultClient == [Transport |-> [DialTLS |-> NoDial]]

\* C20: the process-wide default client is never mutated: at every point of
\* a Check invocation its transport and connection function are those of
\* process start.
C20_DefaultClientUntouched == DefaultHTTPClient = InitialDefaultClient


\* The attempt count and every attempt's round-trip time in execution order
AttemptSummary ==
    <<" - Number of attempts = ", ToString(Len(wire)), " (">>
    \o JoinTexts([k \in 1..Len(wire) |-> DurationString(wire[k].rtt)], " ")
    \o <<")">>

\* C15 as stated: a down or degraded verdict carries a notice that holds the
\* attempt count and every attempt's round-trip time in execution order, and
\* a healthy verdict's notice does not.
C15_NoticeSummarises ==
    Returned =>
        IF result.Down \/ result.Degraded
        THEN Contains(result.Notice, AttemptSummary)
        ELSE ~Contains(result.Notice, AttemptSummary)

\* C15, amended: the message the exporter sends for a down or degraded
\* verdict is the verdict's notice followed by the attempt count and every
\* attempt's round-trip time in execution order, and for a healthy verdict
\* the notice alone; the notice itself is empty unless the verdict is
\* degraded, and then names the threshold only.
C15_MessageSummarises ==
    /\ Returned =>
          /\ ~result.Degraded => result.Notice = <<>>
          /\ result.Degraded => ~Contains(result.Notice, AttemptSummary)
    /\ sent.tracked =>
          sent.Message = IF result.Down \/ result.Degraded
                         THEN result.Notice \o AttemptSummary
                         ELSE result.Notice

\* A down verdict of two attempts with different round-trip times was sent
C15_Witness ==
    /\ sent.tracked
    /\ result.Down
    /\ Len(wire) = 2
    /\ wire[1].rtt = 2
    /\ wire[2].rtt = 0
    /\ sent.Message = <<" - Number of attempts = ", "2", " (", "2", "ns", " ", "0s", ")">>


\* A configured header whose name is Host in any case
IsHostHeader(h) == ToLower(h.key) = "host"

\* The header mapping of the request has an entry for the name key
InHeaderMapping(key) ==
    \E n \in 1..Len(req.Header) : ToLower(req.Header[n].key) = ToLower(key)

\* Check has built the request, or has stopped while building it
RequestBuilt == pc \in {"doChecks", "done", "panic"} /\ err = NoError

\* C19: a configured header named Host, in any case, sets the host override
\* of the request to its value and is not added to the header mapping; every
\* other configured header is added to the header mapping, and without a Host
\* header the host override stays the host of the target URL.
C19_HostHeaderRouted ==
    RequestBuilt =>
        /\ pc # "panic"
        /\ \A h \in cfg.Headers :
              IF IsHostHeader(h)
              THEN /\ h.vals # <<>>
                   /\ req.Host \in {<<h.vals[1]>>, Join(h.vals, ", ")}
                   /\ ~InHeaderMapping(h.key)
              ELSE /\ \E n \in 1..Len(req.Header) :
                         /\ req.Header[n].key = CanonicalKey(h.key)
                         /\ req.Header[n].value = Join(h.vals, ", ")
        /\ (\A h \in cfg.Headers : ~IsHostHeader(h)) =>
              req.Host = ParseURL(cfg.URL).Host


\* Every probe recorded in w was made through the connection function that
\* the invocation with configuration cf installs, to cf's own host and port
OwnConnection(cf, w) ==
    \A k \in 1..Len(w) :
        /\ w[k].dial = dialer(cf)
        /\ w[k].addr # <<>> => w[k].addr = HostPort(cf.URL)

\* C14: when Check invocations for different endpoints, none with a client
\* of its own, run concurrently, every attempt of each invocation connects to
\* that invocation's own host and port with that invocation's own skip-verify
\* flag and CA pool.
C14_OwnConnection ==
    /\ OwnConnection(cfg, wire)
    /\ peer.pc # "none" => OwnConnection(peer.cfg, peer.wire)


\* The blobs of the container older than CheckExpiry
ExpiredBlobs == {n \in BlobNames(az.blobs) : az.blobs[n].age > az.s.CheckExpiry}

\* Every page of the container, first to last
AllPages == [k \in 1..NumPages(az.blobs) |-> k]

\* C16: Maintain deletes no blob when CheckExpiry is zero; when CheckExpiry
\* is non-zero and the service fails none of its requests, Maintain has
\* listed every page of the container and has deleted exactly the blobs older
\* than CheckExpiry when it ends; it never deletes another blob.
C16_MaintainDeletesExpired ==
    az.op = "Maintain" =>
        /\ az.deleted \subseteq ExpiredBlobs
        /\ az.deletedElsewhere = {}
        /\ az.s.CheckExpiry = 0 => az.deleted = {}
        /\ ( /\ az.pc \in {"returned", "fatal", "panic"}
             /\ az.s.CheckExpiry # 0
             /\ ~az.serviceFailed ) =>
                /\ az.listed = AllPages
                /\ az.deleted = ExpiredBlobs

\* C17: with account name and key configured and a service that does not
\* fail the upload, Store returns without error for a cached SAS URL that is
\* absent, valid or expired, having uploaded exactly one blob to the
\* configured container with the JSON serialization of the results as body.
C17_StoreUploadsOne ==
    ( /\ az.op = "Store"
      /\ az.pc \in {"returned", "fatal", "panic"}
      /\ az.s.Account = "configured"
      /\ ~az.uploadFailed ) =>
        /\ az.pc = "returned"
        /\ Len(az.uploads) = 1
        /\ az.uploads[1].container = az.s.ContainerName
        /\ az.uploads[1].body = JSON(az.results)

====
